---- MODULE Spec2Model ----
(***************************************************************************)
(* Model of immich_dvd_backup_local.py: the packing loop of main, the      *)
(* per-DVD processing loop of main with its worker pool (copy_asset) and   *)
(* create_iso, and the BackupState progress record.                        *)
(*                                                                         *)
(* Python values that may be None are modelled as sequences of length at   *)
(* most one: << >> is None, <<v>> is the value v.                          *)
(***************************************************************************)
EXTENDS Integers, Sequences, FiniteSets, TLC

(***************************************************************************)
(* Bounds of the model.                                                    *)
(***************************************************************************)
MaxAssets == 4
MaxSize == 3
MaxCapacity == 2
MaxThreads == 2
MaxCalls == 3

VARIABLES
  pc,                  \* position of main
  assets,              \* assets = get_assets_from_db()
  capacity,            \* args.capacity
  pidx,                \* position of "for asset in assets" (next index)
  all_dvds,            \* all_dvds
  current_dvd_assets,  \* current_dvd_assets
  dvd_size,            \* dvd_size
  dvd_num,             \* dvd_num
  mem,                 \* BackupState: last_asset_id, current_dvd, current_dvd_size
  sfile,               \* the file at BackupState.state_file
  lock,                \* BackupState.lock: 0 when free, else the holding thread
  nthr,                \* number of threads that call into the BackupState
  tpc,                 \* per thread: position inside load / save / update
  targs,               \* per thread: arguments of the running update call
  tloc,                \* per thread: the local dict of load / save
  hist,                \* completed BackupState calls: [op, thread, mem, args]
  dry_run,             \* args.dry_run
  use_links,           \* args.use_links
  threads,             \* args.threads
  hostfiles,           \* the host paths at which a file exists
  choice,              \* choice = input(...).strip().lower()
  to_process,          \* to_process
  di,                  \* position of "for dvd in to_process" (current index)
  dirs,                \* the DVD_<num> directories that exist under backup_dir
  files,               \* the files in them: [dir, name, content]
  isos,                \* the ISO images written under backup_dir
  queue,               \* the executor's work queue (indices into dvd_assets)
  fut,                 \* the futures of the current DVD, by asset index
  processed,           \* processed
  wpc,                 \* per worker: position inside copy_asset
  wtask,               \* per worker: index of the asset being copied
  wtarget,             \* per worker: target_path
  tool,                \* position of "for cmd in tools" in create_iso
  isolog,              \* what the running create_iso call did, tool by tool
  iso_result,          \* return value of the last create_iso call
  writes,              \* every placement done: [dir, name, id, run]
  iso_failed,          \* the DVDs whose create_iso returned False
  run                  \* how many times the program has been started

packVars == <<pc, assets, capacity, pidx, all_dvds, current_dvd_assets,
              dvd_size, dvd_num>>
stateVars == <<mem, sfile, lock, nthr, tpc, targs, tloc, hist>>
runVars == <<dry_run, use_links, threads, hostfiles, choice, to_process, di,
             dirs, files, isos, queue, fut, processed, wpc, wtask, wtarget,
             tool, isolog, iso_result, writes, iso_failed, run>>
vars == <<packVars, stateVars, runVars>>

None == << >>
Some(v) == <<v>>

(***************************************************************************)
(* Asset records as returned by the query of get_assets_from_db.           *)
(***************************************************************************)
AssetIds == <<"a1", "a2", "a3", "a4", "a5", "a6">>

SizeValues == {None} \cup {Some(n) : n \in 0..MaxSize}

\* One row of the query; rows come ordered by fileCreatedAt, the date part
\* of the i-th row is i.
MkAsset(i, path, fname, sz) ==
  [id |-> AssetIds[i], originalPath |-> path, originalFileName |-> fname,
   fileCreatedAt |-> <<i, "T">>, fileSizeInByte |-> sz]

\* asset['fileSizeInByte'] or 0
SizeOrZero(asset) ==
  IF asset.fileSizeInByte = None THEN 0
  ELSE IF asset.fileSizeInByte[1] = 0 THEN 0
  ELSE asset.fileSizeInByte[1]

\* asset['fileCreatedAt'].split('T')[0]
DateOf(asset) == asset.fileCreatedAt[1]

\* The dict appended to all_dvds when a DVD is sealed.
MkDvd(num, members, size) ==
  [num |-> num, assets |-> members, size |-> size,
   start |-> DateOf(members[1]), end |-> DateOf(members[Len(members)])]

(***************************************************************************)
(* One iteration of the packing loop, on the accumulator                   *)
(* [all_dvds, current_dvd_assets, dvd_size, dvd_num].                      *)
(***************************************************************************)
PackStepEager(acc, asset, cap) ==
  LET size == SizeOrZero(asset)
      sealed == IF acc.dvd_size + size >= cap /\ acc.current_dvd_assets # << >>
                THEN [all_dvds |-> Append(acc.all_dvds,
                        MkDvd(acc.dvd_num, acc.current_dvd_assets, acc.dvd_size)),
                      current_dvd_assets |-> << >>,
                      dvd_size |-> 0,
                      dvd_num |-> acc.dvd_num + 1]
                ELSE acc
  IN [sealed EXCEPT !.current_dvd_assets = Append(@, asset),
                    !.dvd_size = @ + size]

PackStepDrop(acc, asset, cap) ==
  LET size == SizeOrZero(asset) IN
  IF acc.dvd_size + size > cap /\ acc.current_dvd_assets # << >>
  THEN [all_dvds |-> Append(acc.all_dvds,
                      MkDvd(acc.dvd_num, acc.current_dvd_assets, acc.dvd_size)),
        current_dvd_assets |-> << >>,
        dvd_size |-> 0,
        dvd_num |-> acc.dvd_num + 1]
  ELSE [acc EXCEPT !.current_dvd_assets = Append(@, asset),
                   !.dvd_size = @ + size]

PackStepLate(acc, asset, cap) ==
  LET size == SizeOrZero(asset)
      sealed == IF acc.dvd_size > cap /\ acc.current_dvd_assets # << >>
                THEN [all_dvds |-> Append(acc.all_dvds,
                        MkDvd(acc.dvd_num, acc.current_dvd_assets, acc.dvd_size)),
                      current_dvd_assets |-> << >>,
                      dvd_size |-> 0,
                      dvd_num |-> acc.dvd_num + 1]
                ELSE acc
  IN [sealed EXCEPT !.current_dvd_assets = Append(@, asset),
                    !.dvd_size = @ + size]

PackStepNoNum(acc, asset, cap) ==
  LET size == SizeOrZero(asset)
      sealed == IF acc.dvd_size + size > cap /\ acc.current_dvd_assets # << >>
                THEN [all_dvds |-> Append(acc.all_dvds,
                        MkDvd(acc.dvd_num, acc.current_dvd_assets, acc.dvd_size)),
                      current_dvd_assets |-> << >>,
                      dvd_size |-> 0,
                      dvd_num |-> acc.dvd_num]
                ELSE acc
  IN [sealed EXCEPT !.current_dvd_assets = Append(@, asset),
                    !.dvd_size = @ + size]

PackStep(acc, asset, cap) ==
  LET size == SizeOrZero(asset)
      sealed == IF acc.dvd_size + size > cap /\ acc.current_dvd_assets # << >>
                THEN [all_dvds |-> Append(acc.all_dvds,
                        MkDvd(acc.dvd_num, acc.current_dvd_assets, acc.dvd_size)),
                      current_dvd_assets |-> << >>,
                      dvd_size |-> 0,
                      dvd_num |-> acc.dvd_num + 1]
                ELSE acc
  IN [sealed EXCEPT !.current_dvd_assets = Append(@, asset),
                    !.dvd_size = @ + size]

\* The "if current_dvd_assets:" block after the loop.
PackSeal(acc) ==
  IF acc.current_dvd_assets # << >>
  THEN Append(acc.all_dvds,
              MkDvd(acc.dvd_num, acc.current_dvd_assets, acc.dvd_size))
  ELSE acc.all_dvds

(***************************************************************************)
(* main, from the query result to the menu.                                *)
(***************************************************************************)
PackInputs ==
  UNION { [1..n -> SizeValues] : n \in 0..MaxAssets }

\* if not assets: return
NoAssets ==
  /\ pc = "fetched"
  /\ assets = << >>
  /\ pc' = "returned"
  /\ UNCHANGED <<assets, capacity, pidx, all_dvds, current_dvd_assets,
                 dvd_size, dvd_num>>
  /\ UNCHANGED <<stateVars, runVars>>

\* all_dvds = []; current_dvd_assets = []; dvd_size = 0; dvd_num = 1
PackStart ==
  /\ pc = "fetched"
  /\ assets # << >>
  /\ pc' = "pack"
  /\ pidx' = 1
  /\ all_dvds' = << >>
  /\ current_dvd_assets' = << >>
  /\ dvd_size' = 0
  /\ dvd_num' = 1
  /\ UNCHANGED <<assets, capacity>>
  /\ UNCHANGED <<stateVars, runVars>>

\* one iteration of "for asset in assets"
PackIter ==
  /\ pc = "pack"
  /\ pidx <= Len(assets)
  /\ LET acc == PackStep([all_dvds |-> all_dvds,
                          current_dvd_assets |-> current_dvd_assets,
                          dvd_size |-> dvd_size, dvd_num |-> dvd_num],
                         assets[pidx], capacity)
     IN /\ all_dvds' = acc.all_dvds
        /\ current_dvd_assets' = acc.current_dvd_assets
        /\ dvd_size' = acc.dvd_size
        /\ dvd_num' = acc.dvd_num
  /\ pidx' = pidx + 1
  /\ UNCHANGED <<pc, assets, capacity>>
  /\ UNCHANGED <<stateVars, runVars>>

\* the loop is exhausted: seal the last DVD and show the menu
PackFinish ==
  /\ pc = "pack"
  /\ pidx > Len(assets)
  /\ all_dvds' = PackSeal([all_dvds |-> all_dvds,
                           current_dvd_assets |-> current_dvd_assets,
                           dvd_size |-> dvd_size, dvd_num |-> dvd_num])
  /\ pc' = "menu"
  /\ UNCHANGED <<assets, capacity, pidx, current_dvd_assets, dvd_size, dvd_num>>
  /\ UNCHANGED <<stateVars, runVars>>

(***************************************************************************)
(* BackupState.  The attributes hold Python values: None or <<value>>.     *)
(* The state file is absent, unparsable, or holds a JSON object, a         *)
(* function from key names to JSON values <<"null">>, <<"str", s>>,        *)
(* <<"num", n>>.                                                           *)
(***************************************************************************)
Threads == 1..MaxThreads

\* __init__: last_asset_id = None, current_dvd = 1, current_dvd_size = 0
DefaultState ==
  [last_asset_id |-> None, current_dvd |-> Some(1), current_dvd_size |-> Some(0)]

JNull == <<"null">>
JStr(s) == <<"str", s>>
JNum(n) == <<"num", n>>

FileAbsent == [kind |-> "absent", obj |-> << >>]
FileCorrupt == [kind |-> "corrupt", obj |-> << >>]
FileObject(d) == [kind |-> "object", obj |-> d]

\* json.dump of a str-or-None attribute and of an int-or-None attribute
DumpStr(v) == IF v = None THEN JNull ELSE JStr(v[1])
DumpInt(v) == IF v = None THEN JNull ELSE JNum(v[1])

\* json.load of one value: null becomes None, strings and numbers themselves
LoadValue(j) == IF j[1] = "null" THEN None ELSE Some(j[2])

\* state.get(key, default) on the parsed object
DictGetDefault(d, key, default) == default

DictGet(d, key, default) ==
  IF key \in DOMAIN d THEN LoadValue(d[key]) ELSE default

\* the dict literal of save, built key by key
DictPut(d, key, j) ==
  [k \in DOMAIN d \cup {key} |-> IF k = key THEN j ELSE d[k]]

EmptyDict == [k \in {} |-> JNull]

\* What the state file may hold when the program starts.
InitialObjects ==
  { d \in UNION { [ks -> {JStr("a1"), JNum(2)}] :
                   ks \in SUBSET {"last_asset_id", "current_dvd", "current_dvd_size"} } :
      /\ "last_asset_id" \in DOMAIN d => d["last_asset_id"][1] = "str"
      /\ "current_dvd" \in DOMAIN d => d["current_dvd"][1] = "num"
      /\ "current_dvd_size" \in DOMAIN d => d["current_dvd_size"][1] = "num" }

InitialFiles ==
  {FileAbsent, FileCorrupt} \cup { FileObject(d) : d \in InitialObjects }

UpdateIds == {"a1", "a2"}
UpdateDvds == 1..2
UpdateSizes == 0..1

Running == { t \in Threads : tpc[t] # "idle" }
CallsStarted == Len(hist) + Cardinality(Running)

\* The state of the tracker before BackupState(...) is constructed, for the
\* specifications that do not use it.
StateUnused ==
  /\ mem = DefaultState
  /\ sfile = FileAbsent
  /\ lock = 0
  /\ nthr = 0
  /\ tpc = [t \in Threads |-> "idle"]
  /\ targs = [t \in Threads |-> << >>]
  /\ tloc = [t \in Threads |-> EmptyDict]
  /\ hist = << >>

\* BackupState.__init__ up to the call of self.load(), run by thread 1.
InitState(n) ==
  /\ mem = DefaultState
  /\ lock = 0
  /\ nthr = n
  /\ tpc = [t \in Threads |-> IF t = 1 THEN "load_exists" ELSE "idle"]
  /\ targs = [t \in Threads |-> << >>]
  /\ tloc = [t \in Threads |-> EmptyDict]
  /\ hist = << >>

Return(t, op) ==
  /\ tpc' = [tpc EXCEPT ![t] = "idle"]
  /\ hist' = Append(hist, [op |-> op, thread |-> t, mem |-> mem',
                           args |-> targs[t]])

Goto(t, label) ==
  /\ tpc' = [tpc EXCEPT ![t] = label]
  /\ hist' = hist

\* a client thread calls a method of the constructed object
CanCall(t) ==
  /\ t \in 1..nthr
  /\ tpc[t] = "idle"
  /\ Len(hist) >= 1
  /\ CallsStarted < MaxCalls + 1

\* ---- load ----
CallLoad(t) ==
  /\ CanCall(t)
  /\ Goto(t, "load_exists")
  /\ UNCHANGED <<mem, sfile, lock, nthr, targs, tloc>>
  /\ UNCHANGED <<packVars, runVars>>

\* if os.path.exists(self.state_file):
LoadExists(t) ==
  /\ tpc[t] = "load_exists"
  /\ mem' = mem
  /\ IF sfile.kind = "absent" THEN Return(t, "load") ELSE Goto(t, "load_read")
  /\ UNCHANGED <<sfile, lock, nthr, targs, tloc>>
  /\ UNCHANGED <<packVars, runVars>>

\* load without its except clause: the exception leaves load and __init__
LoadReadNoCatch(t) ==
  /\ tpc[t] = "load_read"
  /\ mem' = mem
  /\ IF sfile.kind = "object"
     THEN /\ tloc' = [tloc EXCEPT ![t] = sfile.obj]
          /\ Goto(t, "load_id")
     ELSE /\ tloc' = tloc
          /\ Goto(t, "raised")
  /\ UNCHANGED <<sfile, lock, nthr, targs>>
  /\ UNCHANGED <<packVars, runVars>>

\* open(...), json.load(f); an exception leaves the attributes as they are
LoadRead(t) ==
  /\ tpc[t] = "load_read"
  /\ mem' = mem
  /\ IF sfile.kind = "object"
     THEN /\ tloc' = [tloc EXCEPT ![t] = sfile.obj]
          /\ Goto(t, "load_id")
     ELSE /\ tloc' = tloc
          /\ Return(t, "load")
  /\ UNCHANGED <<sfile, lock, nthr, targs>>
  /\ UNCHANGED <<packVars, runVars>>

\* self.last_asset_id = state.get("last_asset_id")
LoadSetId(t) ==
  /\ tpc[t] = "load_id"
  /\ mem' = [mem EXCEPT !.last_asset_id = DictGet(tloc[t], "last_asset_id", None)]
  /\ Goto(t, "load_dvd")
  /\ UNCHANGED <<sfile, lock, nthr, targs, tloc>>
  /\ UNCHANGED <<packVars, runVars>>

\* self.current_dvd = state.get("current_dvd", 1)
LoadSetDvd(t) ==
  /\ tpc[t] = "load_dvd"
  /\ mem' = [mem EXCEPT !.current_dvd = DictGet(tloc[t], "current_dvd", Some(1))]
  /\ Goto(t, "load_size")
  /\ UNCHANGED <<sfile, lock, nthr, targs, tloc>>
  /\ UNCHANGED <<packVars, runVars>>

\* self.current_dvd_size = state.get("current_dvd_size", 0)
LoadSetSize(t) ==
  /\ tpc[t] = "load_size"
  /\ mem' = [mem EXCEPT !.current_dvd_size =
                           DictGet(tloc[t], "current_dvd_size", Some(0))]
  /\ tloc' = [tloc EXCEPT ![t] = EmptyDict]
  /\ Return(t, "load")
  /\ UNCHANGED <<sfile, lock, nthr, targs>>
  /\ UNCHANGED <<packVars, runVars>>

\* ---- save ----
CallSave(t) ==
  /\ CanCall(t)
  /\ Goto(t, "save_lock")
  /\ UNCHANGED <<mem, sfile, lock, nthr, targs, tloc>>
  /\ UNCHANGED <<packVars, runVars>>

\* with self.lock:
SaveAcquire(t) ==
  /\ tpc[t] = "save_lock"
  /\ lock = 0
  /\ lock' = t
  /\ Goto(t, "save_open")
  /\ UNCHANGED <<mem, sfile, nthr, targs, tloc>>
  /\ UNCHANGED <<packVars, runVars>>

\* open(self.state_file, 'w') truncates the file
SaveOpen(t) ==
  /\ tpc[t] = "save_open"
  /\ sfile' = FileCorrupt
  /\ tloc' = [tloc EXCEPT ![t] = EmptyDict]
  /\ Goto(t, "save_id")
  /\ UNCHANGED <<mem, lock, nthr, targs>>
  /\ UNCHANGED <<packVars, runVars>>

\* "last_asset_id": self.last_asset_id
SaveReadId(t) ==
  /\ tpc[t] = "save_id"
  /\ tloc' = [tloc EXCEPT ![t] =
                DictPut(@, "last_asset_id", DumpStr(mem.last_asset_id))]
  /\ Goto(t, "save_dvd")
  /\ UNCHANGED <<mem, sfile, lock, nthr, targs>>
  /\ UNCHANGED <<packVars, runVars>>

\* "current_dvd": self.current_dvd
SaveReadDvd(t) ==
  /\ tpc[t] = "save_dvd"
  /\ tloc' = [tloc EXCEPT ![t] =
                DictPut(@, "current_dvd", DumpInt(mem.current_dvd))]
  /\ Goto(t, "save_size")
  /\ UNCHANGED <<mem, sfile, lock, nthr, targs>>
  /\ UNCHANGED <<packVars, runVars>>

\* "current_dvd_size": self.current_dvd_size
SaveReadSize(t) ==
  /\ tpc[t] = "save_size"
  /\ tloc' = [tloc EXCEPT ![t] =
                DictPut(@, "current_dvd_size", DumpInt(mem.current_dvd_size))]
  /\ Goto(t, "save_write")
  /\ UNCHANGED <<mem, sfile, lock, nthr, targs>>
  /\ UNCHANGED <<packVars, runVars>>

\* json.dump(..., f) and the close of the file
SaveWrite(t) ==
  /\ tpc[t] = "save_write"
  /\ sfile' = FileObject(tloc[t])
  /\ tloc' = [tloc EXCEPT ![t] = EmptyDict]
  /\ Goto(t, "save_unlock")
  /\ UNCHANGED <<mem, lock, nthr, targs>>
  /\ UNCHANGED <<packVars, runVars>>

SaveRelease(t) ==
  /\ tpc[t] = "save_unlock"
  /\ lock' = 0
  /\ mem' = mem
  /\ Return(t, "save")
  /\ UNCHANGED <<sfile, nthr, targs, tloc>>
  /\ UNCHANGED <<packVars, runVars>>

\* ---- update(asset_id, size, dvd, dvd_size) ----
CallUpdate(t, asset_id, size, dvd, dsize) ==
  /\ CanCall(t)
  /\ targs' = [targs EXCEPT ![t] = <<asset_id, dvd, dsize>>]
  /\ Goto(t, "upd_lock")
  /\ UNCHANGED <<mem, sfile, lock, nthr, tloc>>
  /\ UNCHANGED <<packVars, runVars>>

\* update without "with self.lock:"
UpdAcquireNoLock(t) ==
  /\ tpc[t] = "upd_lock"
  /\ Goto(t, "upd_id")
  /\ UNCHANGED <<mem, sfile, lock, nthr, targs, tloc>>
  /\ UNCHANGED <<packVars, runVars>>

\* with self.lock:
UpdAcquire(t) ==
  /\ tpc[t] = "upd_lock"
  /\ lock = 0
  /\ lock' = t
  /\ Goto(t, "upd_id")
  /\ UNCHANGED <<mem, sfile, nthr, targs, tloc>>
  /\ UNCHANGED <<packVars, runVars>>

\* self.last_asset_id = asset_id
UpdSetId(t) ==
  /\ tpc[t] = "upd_id"
  /\ mem' = [mem EXCEPT !.last_asset_id = Some(targs[t][1])]
  /\ Goto(t, "upd_dvd")
  /\ UNCHANGED <<sfile, lock, nthr, targs, tloc>>
  /\ UNCHANGED <<packVars, runVars>>

\* self.current_dvd = dvd
UpdSetDvd(t) ==
  /\ tpc[t] = "upd_dvd"
  /\ mem' = [mem EXCEPT !.current_dvd = Some(targs[t][2])]
  /\ Goto(t, "upd_size")
  /\ UNCHANGED <<sfile, lock, nthr, targs, tloc>>
  /\ UNCHANGED <<packVars, runVars>>

\* self.current_dvd_size = dvd_size, and the end of the with block
UpdSetSize(t) ==
  /\ tpc[t] = "upd_size"
  /\ mem' = [mem EXCEPT !.current_dvd_size = Some(targs[t][3])]
  /\ lock' = 0
  /\ targs' = [targs EXCEPT ![t] = << >>]
  /\ Return(t, "update")
  /\ UNCHANGED <<sfile, nthr, tloc>>
  /\ UNCHANGED <<packVars, runVars>>

(***************************************************************************)
(* File names.  A name is [stem, ext]: stem is the sequence of the pieces  *)
(* of the name before the extension, ext is the extension with its dot or  *)
(* "" when there is none (os.path.splitext).                               *)
(***************************************************************************)
CONTAINER_UPLOAD_PATH == "/usr/src/app/upload"
HOST_UPLOAD_PATH == "/mnt/backup/immich-app/library"

FName(stem, ext) == [stem |-> stem, ext |-> ext]

\* str.lower() on an extension
Lower(ext) == IF ext = ".JPG" THEN ".jpg" ELSE ext

\* original_filename.lower().endswith(ext.lower())
EndsWithExt(fname, ext) == ext = "" \/ Lower(fname.ext) = Lower(ext)

\* f"{original_filename}{ext}"
AppendExt(fname, ext) ==
  FName(fname.stem \o (IF fname.ext = "" THEN << >> ELSE <<fname.ext>>), ext)

\* container_path.startswith(CONTAINER_UPLOAD_PATH)
HasPrefix(path) == path.prefix = CONTAINER_UPLOAD_PATH

\* container_path.replace(CONTAINER_UPLOAD_PATH, HOST_UPLOAD_PATH, 1)
HostPath(path) == [path EXCEPT !.prefix = HOST_UPLOAD_PATH]

\* target_filename
TargetFilename(asset) ==
  LET ext == asset.originalPath.ext
      original_filename == asset.originalFileName
  IN IF ~EndsWithExt(original_filename, ext)
     THEN AppendExt(original_filename, ext)
     ELSE original_filename

\* f"{os.path.splitext(target_filename)[0]}_{asset_id}{ext}"
FallbackFilename(asset) ==
  FName(TargetFilename(asset).stem \o <<"_", asset.id>>, asset.originalPath.ext)

\* os.path.exists(target_path) for a name in the directory DVD_<num>
TargetExists(num, name) ==
  \E f \in files : f.dir = num /\ f.name = name

\* target_path as chosen by lines 110-113
TargetPath(num, asset) ==
  IF TargetExists(num, TargetFilename(asset))
  THEN FallbackFilename(asset)
  ELSE TargetFilename(asset)

\* os.link or shutil.copy2 onto target_path: the file there now has the
\* content of the asset's file
PlaceFile(fs, num, name, id) ==
  { f \in fs : ~(f.dir = num /\ f.name = name) }
    \cup { [dir |-> num, name |-> name, content |-> id] }

(***************************************************************************)
(* The rows the query may return when the whole program is run: every      *)
(* asset has size 1, and is one of a few kinds of path and display name.   *)
(***************************************************************************)
RunAssets == 2

RunKinds ==
  { [prefix |-> CONTAINER_UPLOAD_PATH, ext |-> ".jpg",
     fname |-> FName(<<"x">>, ".jpg"), exists |-> TRUE],
    [prefix |-> CONTAINER_UPLOAD_PATH, ext |-> ".jpg",
     fname |-> FName(<<"x">>, ""), exists |-> TRUE],
    [prefix |-> CONTAINER_UPLOAD_PATH, ext |-> ".JPG",
     fname |-> FName(<<"x", "_", "a3">>, ".jpg"), exists |-> TRUE],
    [prefix |-> CONTAINER_UPLOAD_PATH, ext |-> ".jpg",
     fname |-> FName(<<"x">>, ".jpg"), exists |-> FALSE],
    [prefix |-> "/elsewhere", ext |-> ".jpg",
     fname |-> FName(<<"x">>, ".jpg"), exists |-> FALSE] }

RunInputs == {<< >>} \cup [1..RunAssets -> RunKinds]

RunPath(i, kind) == [prefix |-> kind.prefix, rel |-> AssetIds[i], ext |-> kind.ext]

\* What the user may type at the prompt, and strip().lower() of it.
RawChoices == {" Q", "q", "ALL ", "all", "x", "0", "1", "2", "3"}

StripLower(raw) ==
  CASE raw = " Q" -> "q"
    [] raw = "ALL " -> "all"
    [] OTHER -> raw

\* int(choice): None stands for ValueError
ParseInt(text) ==
  CASE text = "0" -> Some(0)
    [] text = "1" -> Some(1)
    [] text = "2" -> Some(2)
    [] text = "3" -> Some(3)
    [] OTHER -> None

(***************************************************************************)
(* main: construction of the BackupState and the query.                    *)
(***************************************************************************)
RunFiles ==
  { FileAbsent,
    FileObject([k \in {"last_asset_id", "current_dvd", "current_dvd_size"} |->
                 IF k = "last_asset_id" THEN JStr("a1") ELSE JNum(2)]) }

Workers == 1..MaxThreads

\* main before the menu: nothing chosen, nothing staged, the pool not started
ProcIdle ==
  /\ choice = ""
  /\ to_process = << >>
  /\ di = 0
  /\ dirs = {}
  /\ files = {}
  /\ isos = {}
  /\ queue = << >>
  /\ fut = << >>
  /\ processed = 0
  /\ wpc = [w \in Workers |-> "idle"]
  /\ wtask = [w \in Workers |-> 0]
  /\ wtarget = [w \in Workers |-> None]
  /\ tool = 0
  /\ isolog = << >>
  /\ iso_result = FALSE
  /\ writes = {}
  /\ iso_failed = {}
  /\ run = 1

RunIdle ==
  /\ hostfiles = {}
  /\ ProcIdle

\* The variables of the per-DVD processing, for the specifications that do
\* not use them.
RunUnused ==
  /\ dry_run = FALSE
  /\ use_links = FALSE
  /\ threads = 1
  /\ RunIdle

\* assets = get_assets_from_db()
Fetch ==
  /\ pc = "construct"
  /\ tpc[1] = "idle"
  /\ \E kinds \in RunInputs :
       /\ assets' = [i \in 1..Len(kinds) |->
                       MkAsset(i, RunPath(i, kinds[i]), kinds[i].fname, Some(1))]
       /\ hostfiles' = { HostPath(RunPath(i, kinds[i])) :
                           i \in { j \in 1..Len(kinds) : kinds[j].exists } }
  /\ pc' = "fetched"
  /\ UNCHANGED <<capacity, pidx, all_dvds, current_dvd_assets, dvd_size, dvd_num>>
  /\ UNCHANGED <<dry_run, use_links, threads, choice, to_process, di,
                 dirs, files, isos, queue, fut, processed, wpc, wtask, wtarget,
                 tool, isolog, iso_result, writes, iso_failed, run>>
  /\ UNCHANGED stateVars

\* run_command raises CalledProcessError: the run ends with the traceback
FetchFails ==
  /\ pc = "construct"
  /\ tpc[1] = "idle"
  /\ pc' = "aborted"
  /\ UNCHANGED <<assets, capacity, pidx, all_dvds, current_dvd_assets,
                 dvd_size, dvd_num>>
  /\ UNCHANGED <<stateVars, runVars>>

(***************************************************************************)
(* main: the menu and the selection.                                       *)
(***************************************************************************)
mainVars == <<assets, capacity, pidx, all_dvds, current_dvd_assets, dvd_size,
              dvd_num, threads, hostfiles, run>>
optVars == <<dry_run, use_links>>
poolVars == <<queue, fut, wpc, wtask, wtarget>>
isoVars == <<tool, isolog, iso_result, isos, iso_failed>>

\* the selection without "0 <=": a negative index counts from the end
SelectionFromEnd(text, dvds) ==
  IF text = "q" THEN None
  ELSE IF text = "all" THEN Some(dvds)
  ELSE IF ParseInt(text) = None THEN None
  ELSE LET dvd_idx == ParseInt(text)[1] - 1
       IN IF dvd_idx < Len(dvds)
          THEN Some(<<dvds[IF dvd_idx < 0 THEN Len(dvds) + 1 + dvd_idx
                           ELSE dvd_idx + 1]>>)
          ELSE None

\* the to_process list of lines 224-239; None stands for "return"
Selection(text, dvds) ==
  IF text = "q" THEN None
  ELSE IF text = "all" THEN Some(dvds)
  ELSE IF ParseInt(text) = None THEN None
  ELSE LET dvd_idx == ParseInt(text)[1] - 1
       IN IF 0 <= dvd_idx /\ dvd_idx < Len(dvds)
          THEN Some(<<dvds[dvd_idx + 1]>>)
          ELSE None

Select ==
  /\ pc = "menu"
  /\ \E raw \in RawChoices :
       /\ choice' = StripLower(raw)
       /\ IF Selection(choice', all_dvds) = None
          THEN /\ pc' = "returned"
               /\ UNCHANGED <<to_process, di>>
          ELSE /\ to_process' = Selection(choice', all_dvds)[1]
               /\ di' = 1
               /\ pc' = "loop"
  /\ UNCHANGED <<mainVars, optVars, poolVars, isoVars, dirs, files, processed, writes>>
  /\ UNCHANGED stateVars

(***************************************************************************)
(* main: one DVD of to_process.                                            *)
(***************************************************************************)
CurDvd == to_process[di]

\* lines 242-250: os.makedirs(dvd_dir, exist_ok=True) unless dry_run
BeginDvd ==
  /\ pc = "loop"
  /\ di <= Len(to_process)
  /\ dirs' = IF ~dry_run THEN dirs \cup {CurDvd.num} ELSE dirs
  /\ pc' = "submit"
  /\ UNCHANGED <<mainVars, optVars, poolVars, isoVars, choice, to_process, di, files,
                 processed, writes>>
  /\ UNCHANGED stateVars

\* line 253: one future per asset of the DVD.  The submissions only append
\* to the work queue, so they are taken together.
SubmitAll ==
  /\ pc = "submit"
  /\ queue' = [i \in 1..Len(CurDvd.assets) |-> i]
  /\ fut' = [i \in 1..Len(CurDvd.assets) |-> "pending"]
  /\ processed' = 0
  /\ pc' = "collect"
  /\ UNCHANGED <<mainVars, optVars, isoVars, choice, to_process, di, dirs, files,
                 wpc, wtask, wtarget, writes>>
  /\ UNCHANGED stateVars

Finish(w, i, result) ==
  /\ fut' = [fut EXCEPT ![i] = result]
  /\ wpc' = [wpc EXCEPT ![w] = "idle"]
  /\ wtask' = [wtask EXCEPT ![w] = 0]
  /\ wtarget' = [wtarget EXCEPT ![w] = None]

\* a worker takes the next work item and runs copy_asset, lines 96-106
WStart(w) ==
  /\ w \in 1..threads
  /\ wpc[w] = "idle"
  /\ queue # << >>
  /\ queue' = Tail(queue)
  /\ LET i == Head(queue)
         asset == CurDvd.assets[i]
     IN IF HasPrefix(asset.originalPath)
           /\ HostPath(asset.originalPath) \in hostfiles
        THEN /\ fut' = [fut EXCEPT ![i] = "running"]
             /\ wpc' = [wpc EXCEPT ![w] = "target"]
             /\ wtask' = [wtask EXCEPT ![w] = i]
             /\ wtarget' = wtarget
        ELSE Finish(w, i, "failed")
  /\ UNCHANGED <<mainVars, optVars, isoVars, choice, to_process, di, dirs, files,
                 processed, writes, pc>>
  /\ UNCHANGED stateVars

\* copy_asset without "if dry_run: return True"
WTargetNoDryRun(w) ==
  /\ wpc[w] = "target"
  /\ wtarget' = [wtarget EXCEPT ![w] =
                   Some(TargetPath(CurDvd.num, CurDvd.assets[wtask[w]]))]
  /\ wpc' = [wpc EXCEPT ![w] = "place"]
  /\ UNCHANGED <<fut, wtask>>
  /\ UNCHANGED <<mainVars, optVars, isoVars, choice, to_process, di, dirs, files,
                 processed, writes, pc, queue>>
  /\ UNCHANGED stateVars

\* copy_asset, lines 108-116
WTarget(w) ==
  /\ wpc[w] = "target"
  /\ IF dry_run
     THEN Finish(w, wtask[w], "ok")
     ELSE /\ wtarget' = [wtarget EXCEPT ![w] =
                           Some(TargetPath(CurDvd.num, CurDvd.assets[wtask[w]]))]
          /\ wpc' = [wpc EXCEPT ![w] = "place"]
          /\ UNCHANGED <<fut, wtask>>
  /\ UNCHANGED <<mainVars, optVars, isoVars, choice, to_process, di, dirs, files,
                 processed, writes, pc, queue>>
  /\ UNCHANGED stateVars

Placed(w) ==
  LET asset == CurDvd.assets[wtask[w]]
  IN /\ files' = PlaceFile(files, CurDvd.num, wtarget[w][1], asset.id)
     /\ writes' = writes \cup
          { [dir |-> CurDvd.num, name |-> wtarget[w][1], id |-> asset.id,
             run |-> run] }

\* copy_asset, lines 119-121: os.link succeeds; it raises FileExistsError
\* when there is a file at target_path
WLink(w) ==
  /\ wpc[w] = "place"
  /\ use_links
  /\ ~TargetExists(CurDvd.num, wtarget[w][1])
  /\ Placed(w)
  /\ Finish(w, wtask[w], "ok")
  /\ UNCHANGED <<mainVars, optVars, isoVars, choice, to_process, di, dirs,
                 processed, pc, queue>>
  /\ UNCHANGED stateVars

\* copy_asset, lines 122-126: shutil.copy2 succeeds, directly or after
\* os.link raised OSError; it overwrites a file at target_path
WCopy(w) ==
  /\ wpc[w] = "place"
  /\ Placed(w)
  /\ Finish(w, wtask[w], "ok")
  /\ UNCHANGED <<mainVars, optVars, isoVars, choice, to_process, di, dirs,
                 processed, pc, queue>>
  /\ UNCHANGED stateVars

\* copy_asset without its except clause: future.result() raises in main
WCopyRaises(w) ==
  /\ wpc[w] = "place"
  /\ Finish(w, wtask[w], "failed")
  /\ pc' = "aborted"
  /\ UNCHANGED <<mainVars, optVars, isoVars, choice, to_process, di, dirs, files,
                 writes, processed, queue>>
  /\ UNCHANGED stateVars

\* copy_asset, lines 127-129: shutil.copy2 raises and nothing is placed
WCopyFails(w) ==
  /\ wpc[w] = "place"
  /\ Finish(w, wtask[w], "failed")
  /\ UNCHANGED <<mainVars, optVars, isoVars, choice, to_process, di, dirs, files,
                 writes, processed, pc, queue>>
  /\ UNCHANGED stateVars

\* as_completed(futures) has yielded every future and the with block has
\* shut the executor down
PoolDoneNoWait == TRUE

PoolDone ==
  /\ queue = << >>
  /\ \A i \in 1..Len(fut) : fut[i] \in {"ok", "failed"}
  /\ \A w \in Workers : wpc[w] = "idle"

\* lines 255-266: the results are collected; then create_iso or the next DVD
CollectAll ==
  /\ pc = "collect"
  /\ PoolDone
  /\ processed' = Cardinality({ i \in 1..Len(fut) : fut[i] = "ok" })
  /\ IF dry_run
     THEN /\ pc' = "loop"
          /\ di' = di + 1
          /\ UNCHANGED <<tool, isolog>>
     ELSE /\ pc' = "iso"
          /\ tool' = 1
          /\ isolog' = << >>
          /\ di' = di
  /\ UNCHANGED <<mainVars, optVars, poolVars, choice, to_process, dirs, files, writes,
                 iso_result, isos, iso_failed>>
  /\ UNCHANGED stateVars

(***************************************************************************)
(* create_iso.                                                             *)
(***************************************************************************)
IsoTools == <<"xorriso", "genisoimage", "mkisofs">>

\* if shutil.which(cmd[0]):
IsoInvokesAlways(avail) == TRUE

IsoInvokes(avail) == avail

\* run_command(cmd) returned: return True; it raised: next tool
IsoReturnsNever(invoked, ok) == FALSE

IsoReturns(invoked, ok) == invoked /\ ok

IsoPath(dvd) == <<dvd.num, dvd.start, dvd.end>>

\* one iteration of "for cmd in tools"
IsoTool ==
  /\ pc = "iso"
  /\ tool <= Len(IsoTools)
  /\ \E avail \in BOOLEAN, ok \in BOOLEAN :
       LET invoked == IsoInvokes(avail)
       IN /\ isolog' = Append(isolog, [tool |-> IsoTools[tool], avail |-> avail,
                                       invoked |-> invoked,
                                       ok |-> invoked /\ ok])
          /\ isos' = IF invoked /\ ok THEN isos \cup {IsoPath(CurDvd)} ELSE isos
          /\ IF IsoReturns(invoked, ok)
             THEN /\ iso_result' = TRUE
                  /\ pc' = "iso_ret"
                  /\ UNCHANGED <<tool, iso_failed>>
             ELSE /\ tool' = tool + 1
                  /\ UNCHANGED <<iso_result, pc, iso_failed>>
  /\ UNCHANGED <<mainVars, optVars, poolVars, choice, to_process, di, dirs, files,
                 processed, writes>>
  /\ UNCHANGED stateVars

\* lines 149-151: the loop ended without a return
IsoExhausted ==
  /\ pc = "iso"
  /\ tool > Len(IsoTools)
  /\ iso_result' = FALSE
  /\ iso_failed' = iso_failed \cup {CurDvd.num}
  /\ pc' = "iso_ret"
  /\ UNCHANGED <<tool, isolog, isos>>
  /\ UNCHANGED <<mainVars, optVars, poolVars, choice, to_process, di, dirs, files,
                 processed, writes>>
  /\ UNCHANGED stateVars

\* if create_iso(dvd_dir, iso_path):
RemovesStagingNever(result) == FALSE

RemovesStagingAlways(result) == TRUE

RemovesStaging(result) == result

\* main leaving the loop when create_iso has returned False
AfterIsoStops ==
  /\ pc = "iso_ret"
  /\ IF RemovesStaging(iso_result)
     THEN /\ dirs' = dirs \ {CurDvd.num}
          /\ files' = { f \in files : f.dir # CurDvd.num }
          /\ pc' = "loop"
     ELSE /\ UNCHANGED <<dirs, files>>
          /\ pc' = "aborted"
  /\ di' = di + 1
  /\ isolog' = << >>
  /\ tool' = 0
  /\ UNCHANGED <<mainVars, optVars, poolVars, choice, to_process, processed,
                 writes, iso_result, isos, iso_failed>>
  /\ UNCHANGED stateVars

\* lines 267-269: shutil.rmtree(dvd_dir) after a successful create_iso,
\* then the next DVD
AfterIso ==
  /\ pc = "iso_ret"
  /\ IF RemovesStaging(iso_result)
     THEN /\ dirs' = dirs \ {CurDvd.num}
          /\ files' = { f \in files : f.dir # CurDvd.num }
     ELSE UNCHANGED <<dirs, files>>
  /\ pc' = "loop"
  /\ di' = di + 1
  /\ isolog' = << >>
  /\ tool' = 0
  /\ UNCHANGED <<mainVars, optVars, poolVars, choice, to_process, processed, writes,
                 iso_result, isos, iso_failed>>
  /\ UNCHANGED stateVars

\* line 271: print("Process completed.")
Completed ==
  /\ pc = "loop"
  /\ di > Len(to_process)
  /\ pc' = "completed"
  /\ UNCHANGED <<mainVars, optVars, poolVars, isoVars, choice, to_process, di, dirs,
                 files, processed, writes>>
  /\ UNCHANGED stateVars

\* The program is started a second time after a run that completed, with
\* the same rows in the database, the same capacity and the same answer at
\* the prompt, so that it reaches the for loop with the same to_process; the
\* options --dry-run and --use-links may differ.  What is on disk stays.
Rerun ==
  /\ pc = "completed"
  /\ run = 1
  /\ run' = run + 1
  /\ dry_run' \in BOOLEAN
  /\ use_links' \in BOOLEAN
  /\ pc' = "loop"
  /\ di' = 1
  /\ queue' = << >>
  /\ fut' = << >>
  /\ processed' = 0
  /\ iso_result' = FALSE
  /\ UNCHANGED <<assets, capacity, pidx, all_dvds, current_dvd_assets,
                 dvd_size, dvd_num, threads, hostfiles, choice, to_process>>
  /\ UNCHANGED <<dirs, files, isos, wpc, wtask, wtarget, tool, isolog,
                 writes, iso_failed>>
  /\ UNCHANGED stateVars

(***************************************************************************)
(* Specifications.  Each one runs one part of the program and leaves the   *)
(* variables of the other parts at their initial values.                   *)
(***************************************************************************)
PackUnused ==
  /\ pc = "tracker"
  /\ assets = << >>
  /\ capacity = 1
  /\ pidx = 0
  /\ all_dvds = << >>
  /\ current_dvd_assets = << >>
  /\ dvd_size = 0
  /\ dvd_num = 0

\* main from the query result to the menu.
InitPack ==
  /\ pc = "fetched"
  /\ \E sizes \in PackInputs :
       assets = [i \in 1..Len(sizes) |-> MkAsset(i, "p", "f", sizes[i])]
  /\ capacity \in 1..MaxCapacity
  /\ pidx = 0
  /\ all_dvds = << >>
  /\ current_dvd_assets = << >>
  /\ dvd_size = 0
  /\ dvd_num = 0
  /\ StateUnused
  /\ RunUnused

NextPack == NoAssets \/ PackStart \/ PackIter \/ PackFinish

SpecPack == InitPack /\ [][NextPack]_vars

\* One client thread using a BackupState.
InitTracker == PackUnused /\ InitState(1) /\ sfile \in InitialFiles /\ RunUnused

NextTracker ==
  \E t \in Threads :
    \/ CallLoad(t) \/ LoadExists(t) \/ LoadRead(t)
    \/ LoadSetId(t) \/ LoadSetDvd(t) \/ LoadSetSize(t)
    \/ CallSave(t) \/ SaveAcquire(t) \/ SaveOpen(t)
    \/ SaveReadId(t) \/ SaveReadDvd(t) \/ SaveReadSize(t)
    \/ SaveWrite(t) \/ SaveRelease(t)
    \/ \E a \in UpdateIds, sz \in 0..MaxSize, d \in UpdateDvds, ds \in UpdateSizes :
         CallUpdate(t, a, sz, d, ds)
    \/ UpdAcquire(t) \/ UpdSetId(t) \/ UpdSetDvd(t) \/ UpdSetSize(t)

SpecTracker == InitTracker /\ [][NextTracker]_vars

\* Several threads calling update and save on one BackupState, after the
\* constructor has returned.
InitConc == PackUnused /\ InitState(MaxThreads) /\ sfile \in RunFiles /\ RunUnused

\* The (asset_id, dvd, dvd_size) of the concurrent update calls: two records
\* that differ in every attribute, and from the record of RunFiles.
ConcUpdates == { <<"a2", 1, 0>>, <<"a3", 3, 1>> }

NextConc ==
  \/ LoadExists(1) \/ LoadRead(1) \/ LoadSetId(1) \/ LoadSetDvd(1) \/ LoadSetSize(1)
  \/ \E t \in Threads :
       \/ CallSave(t) \/ SaveAcquire(t) \/ SaveOpen(t)
       \/ SaveReadId(t) \/ SaveReadDvd(t) \/ SaveReadSize(t)
       \/ SaveWrite(t) \/ SaveRelease(t)
       \/ \E u \in ConcUpdates, sz \in UpdateSizes :
            CallUpdate(t, u[1], sz, u[2], u[3])
       \/ UpdAcquire(t) \/ UpdSetId(t) \/ UpdSetDvd(t) \/ UpdSetSize(t)

SpecConc == InitConc /\ [][NextConc]_vars

\* The whole of main, from state = BackupState(args.state_file) on: the
\* constructor's load runs on thread 1, then the query, the packing loop,
\* the menu and the selected DVDs.
InitRun ==
  /\ pc = "construct"
  /\ assets = << >>
  /\ capacity \in (RunAssets - 1)..RunAssets
  /\ pidx = 0
  /\ all_dvds = << >>
  /\ current_dvd_assets = << >>
  /\ dvd_size = 0
  /\ dvd_num = 0
  /\ InitState(0)
  /\ sfile \in RunFiles
  /\ dry_run \in BOOLEAN
  /\ use_links \in BOOLEAN
  /\ threads \in 1..MaxThreads
  /\ RunIdle

NextRun ==
  \/ LoadExists(1) \/ LoadRead(1) \/ LoadSetId(1) \/ LoadSetDvd(1) \/ LoadSetSize(1)
  \/ Fetch \/ FetchFails
  \/ NoAssets \/ PackStart \/ PackIter \/ PackFinish
  \/ Select \/ BeginDvd \/ SubmitAll
  \/ \E w \in Workers : WStart(w) \/ WTarget(w) \/ WLink(w) \/ WCopy(w) \/ WCopyFails(w)
  \/ CollectAll \/ IsoTool \/ IsoExhausted \/ AfterIso \/ Completed

SpecRun == InitRun /\ [][NextRun]_vars

\* main after the query has returned n rows that fit on one DVD, run with
\* one worker (--threads 1).
InitFetched(n) ==
  /\ pc = "fetched"
  /\ \E kinds \in [1..n -> RunKinds] :
       /\ assets = [i \in 1..n |->
                      MkAsset(i, RunPath(i, kinds[i]), kinds[i].fname, Some(1))]
       /\ hostfiles = { HostPath(RunPath(i, kinds[i])) :
                          i \in { j \in 1..n : kinds[j].exists } }
  /\ capacity = n
  /\ pidx = 0
  /\ all_dvds = << >>
  /\ current_dvd_assets = << >>
  /\ dvd_size = 0
  /\ dvd_num = 0
  /\ StateUnused
  /\ use_links \in BOOLEAN
  /\ threads = 1
  /\ ProcIdle

\* One DVD of one more asset than in the runs above, staged by one worker.
StageAssets == RunAssets + 1

InitStage == InitFetched(StageAssets) /\ dry_run = FALSE

NextStage ==
  \/ PackStart \/ PackIter \/ PackFinish
  \/ Select \/ BeginDvd \/ SubmitAll
  \/ \E w \in Workers : WStart(w) \/ WTarget(w) \/ WLink(w) \/ WCopy(w) \/ WCopyFails(w)
  \/ CollectAll \/ IsoTool \/ IsoExhausted \/ AfterIso \/ Completed

SpecStage == InitStage /\ [][NextStage]_vars

\* The program run, and started again, on the same backup directory.
InitRerun == InitFetched(RunAssets) /\ dry_run \in BOOLEAN

NextRerun ==
  \/ PackStart \/ PackIter \/ PackFinish
  \/ Select \/ BeginDvd \/ SubmitAll
  \/ \E w \in Workers : WStart(w) \/ WTarget(w) \/ WLink(w) \/ WCopy(w) \/ WCopyFails(w)
  \/ CollectAll \/ IsoTool \/ IsoExhausted \/ AfterIso \/ Completed
  \/ Rerun

SpecRerun == InitRerun /\ [][NextRerun]_vars

(***************************************************************************)
(* Properties of the packing loop.                                         *)
(***************************************************************************)
RECURSIVE ConcatAssets(_)
ConcatAssets(dvds) ==
  IF dvds = << >> THEN << >>
  ELSE dvds[1].assets \o ConcatAssets(Tail(dvds))

RECURSIVE SumSizes(_)
SumSizes(members) ==
  IF members = << >> THEN 0
  ELSE SizeOrZero(members[1]) + SumSizes(Tail(members))

PackDone == pc = "menu"

\* C1: once the packing loop has run, the DVDs' asset lists concatenated in
\* output order are exactly the input sequence (nothing lost, nothing
\* repeated, order kept), null and zero sizes included.
C1_Partition ==
  PackDone => ConcatAssets(all_dvds) = assets

C1_Witness ==
  /\ PackDone
  /\ Len(all_dvds) >= 2
  /\ \E i \in 1..Len(assets) : assets[i].fileSizeInByte = None
  /\ \E i \in 1..Len(assets) : assets[i].fileSizeInByte = Some(0)

\* C2: every produced DVD, the last included, has a cumulative size (null
\* counted as 0) of at most the capacity unless it holds exactly one asset
\* larger than the capacity; every asset larger than the capacity is the
\* only member of some DVD.
C2_Capacity ==
  PackDone =>
    /\ \A k \in 1..Len(all_dvds) :
         /\ all_dvds[k].size = SumSizes(all_dvds[k].assets)
         /\ \/ all_dvds[k].size <= capacity
            \/ /\ Len(all_dvds[k].assets) = 1
               /\ SizeOrZero(all_dvds[k].assets[1]) > capacity
    /\ \A i \in 1..Len(assets) :
         SizeOrZero(assets[i]) > capacity =>
           \E k \in 1..Len(all_dvds) : all_dvds[k].assets = <<assets[i]>>

C2_Witness ==
  /\ PackDone
  /\ Len(assets) >= 3
  /\ \E k \in 1..Len(all_dvds) : all_dvds[k].size > capacity
  /\ \E k \in 1..Len(all_dvds) : Len(all_dvds[k].assets) >= 2
  /\ SizeOrZero(assets[Len(assets)]) = 0
  /\ SizeOrZero(assets[Len(assets) - 1]) > capacity

\* C3: the produced DVDs are numbered 1, 2, ..., N in output order and none
\* of them is empty.
C3_Ordinals ==
  PackDone =>
    \A k \in 1..Len(all_dvds) :
      /\ all_dvds[k].num = k
      /\ all_dvds[k].assets # << >>

C3_Witness ==
  /\ PackDone
  /\ Len(all_dvds) >= 3
  /\ SizeOrZero(assets[1]) > capacity

\* The reference: the first DVD is the longest prefix of the input whose
\* sizes add up to at most the capacity, or the first asset alone when that
\* asset is larger; the other DVDs are the reference packing of the rest.
RECURSIVE GreedyRef(_, _)
GreedyRef(members, cap) ==
  IF members = << >> THEN << >>
  ELSE LET fits == { e \in 1..Len(members) :
                       e = 1 \/ SumSizes(SubSeq(members, 1, e)) <= cap }
           n == CHOOSE e \in fits : \A o \in fits : o <= e
       IN <<SubSeq(members, 1, n)>>
            \o GreedyRef(SubSeq(members, n + 1, Len(members)), cap)

\* C17: a DVD is sealed only when the next asset does not fit: the size of
\* every DVD but the last plus the size of the first asset of the DVD after
\* it is greater than the capacity; and the asset lists of the DVDs are
\* those of the reference greedy packing.
C17_Greedy ==
  PackDone =>
    /\ \A k \in 1..(Len(all_dvds) - 1) :
         all_dvds[k].size + SizeOrZero(all_dvds[k + 1].assets[1]) > capacity
    /\ [k \in 1..Len(all_dvds) |-> all_dvds[k].assets] = GreedyRef(assets, capacity)

C17_Witness ==
  /\ PackDone
  /\ Len(all_dvds) >= 2
  /\ \E k \in 1..(Len(all_dvds) - 1) :
       /\ Len(all_dvds[k].assets) >= 2
       /\ all_dvds[k].size < capacity
       /\ SizeOrZero(all_dvds[k + 1].assets[1]) <= capacity


(***************************************************************************)
(* Properties of BackupState.                                              *)
(***************************************************************************)
\* The record held by the state file equals the attributes in memory.
Persisted(m) ==
  /\ sfile.kind = "object"
  /\ DOMAIN sfile.obj = {"last_asset_id", "current_dvd", "current_dvd_size"}
  /\ LoadValue(sfile.obj["last_asset_id"]) = m.last_asset_id
  /\ LoadValue(sfile.obj["current_dvd"]) = m.current_dvd
  /\ LoadValue(sfile.obj["current_dvd_size"]) = m.current_dvd_size

\* C8 (as claimed): after every completed call of update the state file
\* holds the attributes that the call has just set.
C8_UpdatePersists ==
  (/\ Len(hist) >= 1
   /\ hist[Len(hist)].op = "update"
   /\ Running = {}) => Persisted(hist[Len(hist)].mem)

\* C10: a load that follows a save leaves the attributes as they were when
\* the save returned.
C10_RoundTrip ==
  \A i \in 1..(Len(hist) - 1) :
    (hist[i].op = "save" /\ hist[i + 1].op = "load")
      => hist[i + 1].mem = hist[i].mem

C10_Witness ==
  /\ Len(hist) = 4
  /\ hist[2].op = "update"
  /\ hist[3].op = "save"
  /\ hist[4].op = "load"
  /\ hist[4].mem = [last_asset_id |-> Some("a2"), current_dvd |-> Some(2),
                    current_dvd_size |-> Some(1)]

\* C11: the load run by the constructor never ends in an exception; when the
\* state file is absent or cannot be read or parsed, the attributes stay
\* None, 1, 0 during the load and after it, and the object can be called.
C11_LoadDefaults ==
  /\ (Len(hist) = 0 /\ sfile.kind # "object") =>
       /\ tpc[1] \in {"load_exists", "load_read"}
       /\ mem = DefaultState
  /\ (Len(hist) = 1 /\ Running = {} /\ sfile.kind # "object") =>
       /\ hist[1].op = "load"
       /\ hist[1].mem = DefaultState
       /\ mem = DefaultState
  /\ Len(hist) >= 1 => hist[1].op = "load"

C11_Witness ==
  /\ Len(hist) = 2
  /\ hist[1].op = "load"
  /\ hist[1].mem = DefaultState
  /\ hist[2].op = "update"
  /\ sfile.kind = "corrupt"
  /\ Running = {}

\* the attributes as one update call with these arguments sets them
ArgState(a) ==
  [last_asset_id |-> Some(a[1]), current_dvd |-> Some(a[2]),
   current_dvd_size |-> Some(a[3])]

\* the indices in hist of the completed update calls
UpdatesDone == { i \in 1..Len(hist) : hist[i].op = "update" }

\* The whole records: the attributes when the constructor returned, and
\* those of every update call made so far, completed or not.
WholeStates ==
  {hist[1].mem}
    \cup { ArgState(hist[i].args) : i \in UpdatesDone }
    \cup { ArgState(targs[t]) :
             t \in { u \in Threads :
                       tpc[u] \in {"upd_lock", "upd_id", "upd_dvd", "upd_size"} } }

\* C19: with several threads calling update and save, whenever no update is
\* between its first and its last assignment (so also when all calls have
\* finished) the attributes are the initial ones or those of one update
\* call; every record in the state file is such a record; and when all
\* calls have finished the attributes are those of the update that
\* completed last.
C19_NoTornUpdate ==
  Len(hist) >= 1 =>
    /\ (\A t \in Threads : tpc[t] \notin {"upd_dvd", "upd_size"}) =>
         mem \in WholeStates
    /\ sfile.kind = "object" => \E m \in WholeStates : Persisted(m)
    /\ (Running = {} /\ UpdatesDone # {}) =>
         mem = ArgState(hist[CHOOSE i \in UpdatesDone :
                               \A j \in UpdatesDone : j <= i].args)

C19_Witness ==
  /\ Running = {}
  /\ Len(hist) = 4
  /\ \E i \in UpdatesDone, j \in UpdatesDone :
       /\ i < j
       /\ hist[i].thread # hist[j].thread
       /\ hist[i].args # hist[j].args
  /\ \E i \in 1..Len(hist) : hist[i].op = "save"
  /\ sfile.kind = "object"
  /\ ~Persisted(mem)
  /\ ~Persisted(hist[1].mem)



(***************************************************************************)
(* Properties of the processing of the selected DVDs.                      *)
(***************************************************************************)
\* C4 (as claimed): no two distinct assets are ever written to the same
\* path of a staging directory, whatever the interleaving of the workers.
C4_NoSharedPath ==
  \A a \in writes, b \in writes :
    (a.dir = b.dir /\ a.name = b.name) => a.id = b.id

\* C5: while create_iso runs for a DVD, and when it returns, every asset of
\* the DVD has a finished copy attempt (success or failure), the work queue
\* is empty and no worker is inside copy_asset.
C5_Barrier ==
  pc \in {"iso", "iso_ret"} =>
    /\ queue = << >>
    /\ \A w \in Workers : wpc[w] = "idle"
    /\ Len(fut) = Len(CurDvd.assets)
    /\ \A i \in 1..Len(fut) : fut[i] \in {"ok", "failed"}

C5_Witness ==
  /\ pc = "iso"
  /\ tool = 1
  /\ threads = 2
  /\ Len(fut) = 2
  /\ fut[1] = "failed"
  /\ fut[2] = "ok"
  /\ \E f \in files : f.dir = CurDvd.num

\* the paths (directory, name) at which a file exists
Paths(fs) == { <<f.dir, f.name>> : f \in fs }

\* C6: a step removes a staging directory, or a file from one, only when it
\* is the step that follows a create_iso call that returned True, and then
\* only for that DVD; and once create_iso has returned False for a DVD, its
\* staging directory and the files in it stay as they are.
C6_CleanupOnlyAfterSuccess ==
  [][ /\ (dirs \ dirs' # {} \/ Paths(files) \ Paths(files') # {}) =>
           /\ pc = "iso_ret"
           /\ iso_result
           /\ dirs \ dirs' \subseteq {CurDvd.num}
           /\ \A p \in Paths(files) \ Paths(files') : p[1] = CurDvd.num
      /\ \A n \in iso_failed :
           /\ n \in dirs
           /\ n \in dirs'
           /\ { f \in files' : f.dir = n } = { f \in files : f.dir = n }
    ]_vars

C6_Witness ==
  /\ pc = "loop"
  /\ Len(to_process) = 2
  /\ di = 3
  /\ iso_failed = {1}
  /\ 1 \in dirs
  /\ \E f \in files : f.dir = 1
  /\ 2 \notin dirs
  /\ \E w \in writes : w.dir = 2
  /\ \A f \in files : f.dir # 2
  /\ \E i \in isos : i[1] = 2

\* C7: create_iso takes the tools in the order xorriso, genisoimage, mkisofs;
\* it invokes only available tools; it goes on to a later tool only when
\* every earlier one was unavailable or failed; and it returns True exactly
\* when an invocation succeeded, False only after all three tools.
C7_ToolOrder ==
  pc \in {"iso", "iso_ret"} =>
    /\ Len(isolog) <= Len(IsoTools)
    /\ \A i \in 1..Len(isolog) :
         /\ isolog[i].tool = IsoTools[i]
         /\ isolog[i].invoked = isolog[i].avail
         /\ i < Len(isolog) => ~isolog[i].ok
    /\ pc = "iso" => (tool = Len(isolog) + 1
                      /\ \A i \in 1..Len(isolog) : ~isolog[i].ok)
    /\ pc = "iso_ret" =>
         /\ iso_result = (\E i \in 1..Len(isolog) :
                            isolog[i].avail /\ isolog[i].invoked /\ isolog[i].ok)
         /\ ~iso_result => Len(isolog) = Len(IsoTools)

C7_Witness ==
  /\ pc = "iso_ret"
  /\ iso_result
  /\ Len(isolog) = 3
  /\ ~isolog[1].avail
  /\ isolog[2].invoked
  /\ ~isolog[2].ok
  /\ isolog[3].ok

\* C9 (as claimed): when the copies of a DVD are done in a run that is not
\* a dry run and at least one of them succeeded, the BackupState names an
\* asset of the DVD that was copied as last asset and the DVD's number as
\* current DVD.
C9_ProgressRecorded ==
  (pc = "iso_ret" /\ ~dry_run /\ processed >= 1) =>
    /\ \E i \in 1..Len(fut) :
         /\ fut[i] = "ok"
         /\ mem.last_asset_id = Some(CurDvd.assets[i].id)
    /\ mem.current_dvd = Some(CurDvd.num)

\* copy_asset should succeed for the asset: its path has the container
\* prefix and the path it resolves to on the host exists
Resolves(asset) ==
  /\ HasPrefix(asset.originalPath)
  /\ HostPath(asset.originalPath) \in hostfiles

\* C12: in a dry run create_iso is never called and no step creates or
\* removes a staging directory, a staged file or an ISO image, also when
\* an earlier run has left staging directories behind; and the copy attempt
\* of an asset ends in success exactly when the asset's path has the
\* container prefix and resolves to an existing host path.
C12_DryRunFrame ==
  /\ [](dry_run => /\ pc \notin {"iso", "iso_ret"}
                   /\ tool = 0
                   /\ isolog = << >>)
  /\ []((dry_run /\ pc = "collect") =>
          \A i \in 1..Len(fut) :
            /\ fut[i] = "ok" => Resolves(CurDvd.assets[i])
            /\ fut[i] = "failed" => ~Resolves(CurDvd.assets[i]))
  /\ [][dry_run => /\ dirs' = dirs
                   /\ files' = files
                   /\ isos' = isos
                   /\ writes' = writes]_vars

C12_Witness ==
  /\ run = 2
  /\ dry_run
  /\ pc = "completed"
  /\ dirs # {}
  /\ files # {}
  /\ processed = 1
  /\ \E i \in 1..Len(fut) : fut[i] = "ok"
  /\ \E i \in 1..Len(fut) : fut[i] = "failed"

\* C13: an asset whose path lacks the prefix, whose source is missing or
\* whose link/copy raises ends as a failed future and nothing else: while
\* main waits for the pool, the pool can go on or is done; the run ends
\* early only before the first DVD is processed, never from inside the
\* pool; and when create_iso starts every member of the DVD has been
\* attempted, the unresolvable ones have failed, the successful ones have
\* been placed.
C13_FailureContained ==
  /\ pc = "collect" =>
       \/ \E w \in 1..threads : wpc[w] # "idle"
       \/ queue # << >>
       \/ PoolDone
  /\ pc \in {"aborted", "returned"} => (fut = << >> /\ di = 0)
  /\ pc = "iso" => (~dry_run /\ tool >= 1)
  /\ pc \in {"iso", "iso_ret"} =>
       \A i \in 1..Len(CurDvd.assets) :
         /\ fut[i] \in {"ok", "failed"}
         /\ ~Resolves(CurDvd.assets[i]) => fut[i] = "failed"
         /\ fut[i] = "ok" =>
              \E wr \in writes : /\ wr.dir = CurDvd.num
                                 /\ wr.id = CurDvd.assets[i].id

C13_Witness ==
  /\ pc = "iso"
  /\ ~dry_run
  /\ Len(fut) = 2
  /\ fut[1] = "failed"
  /\ Resolves(CurDvd.assets[1])
  /\ fut[2] = "ok"
  /\ \E f \in files : f.dir = CurDvd.num /\ f.content = CurDvd.assets[2].id

\* create_iso has been called for the DVD and has returned
Built(dvd) == dvd.num \in iso_failed \/ IsoPath(dvd) \in isos

\* C14: once a create_iso call has returned False, main is still in the loop
\* over to_process or has printed "Process completed."; in every position
\* of the loop a next step exists (the next DVD, the next tool, the end);
\* every selected DVD before the current one has had its create_iso call,
\* and at completion every selected DVD has.
C14_IsoFailureContained ==
  /\ iso_failed # {} =>
       pc \in {"loop", "submit", "collect", "iso", "iso_ret", "completed"}
  /\ pc = "loop" => di \in 1..(Len(to_process) + 1)
  /\ pc \in {"submit", "collect", "iso", "iso_ret"} => di \in 1..Len(to_process)
  /\ pc = "iso" => tool \in 1..(Len(IsoTools) + 1)
  /\ pc = "completed" => di = Len(to_process) + 1
  /\ (~dry_run /\ pc \in {"loop", "submit", "collect", "iso", "iso_ret",
                          "completed"}) =>
       \A k \in 1..Len(to_process) : k < di => Built(to_process[k])

C14_Witness ==
  /\ pc = "completed"
  /\ Len(to_process) = 2
  /\ iso_failed = {1}
  /\ IsoPath(to_process[2]) \in isos
  /\ \E wr \in writes : wr.dir = 2
  /\ \E f \in files : f.dir = 1

\* The first run has placed every asset of the DVD in its staging directory
\* and the directory has been left in place by a failed create_iso.
StagedByFirstRun(dvd) ==
  /\ dvd.num \in iso_failed
  /\ \A i \in 1..Len(dvd.assets) :
       \E wr \in writes : /\ wr.run = 1
                          /\ wr.dir = dvd.num
                          /\ wr.id = dvd.assets[i].id

\* C15 (as claimed): when the second run stages a DVD into the directory
\* that holds the complete result of the first run's staging of that DVD,
\* no step of it changes the set of file paths in the staging directories.
C15_Idempotent ==
  [][ (/\ run = 2
       /\ ~dry_run
       /\ pc = "collect"
       /\ StagedByFirstRun(CurDvd)) => Paths(files') = Paths(files) ]_vars

\* The pool works for one DVD at a time: outside the with block of a DVD no
\* worker is inside copy_asset and no work is queued, and every placement
\* goes to the directory of the DVD being processed.
NoOverlap ==
  /\ pc # "collect" => (queue = << >> /\ \A w \in Workers : wpc[w] = "idle")
  /\ \A w \in Workers : wpc[w] # "idle" => wtask[w] \in 1..Len(CurDvd.assets)

\* C16 (as claimed): the DVDs are processed one at a time, and at every
\* moment the staged files on disk belong to at most one DVD, the one being
\* processed.
C16_OneChunkStaged ==
  /\ NoOverlap
  /\ Cardinality({ f.dir : f \in files }) <= 1
  /\ pc \in {"submit", "collect", "iso", "iso_ret"} =>
       \A f \in files : f.dir = CurDvd.num

\* C16 (amended): the DVDs are processed one at a time, and at every moment
\* a staged file on disk belongs to the DVD being processed or to a DVD
\* whose create_iso has returned False earlier in the run.
C16_StagedCurrentOrFailed ==
  /\ NoOverlap
  /\ \A f \in files :
       \/ f.dir \in iso_failed
       \/ pc \in {"collect", "iso", "iso_ret"} /\ f.dir = CurDvd.num

C16_Witness ==
  /\ pc = "collect"
  /\ di = 2
  /\ iso_failed = {1}
  /\ \E f \in files : f.dir = 1
  /\ \E f \in files : f.dir = 2
  /\ fut = <<"ok">>

\* C18 (as claimed): with one worker, unique asset ids and staging
\* directories that are empty when the run begins, no two placements of the
\* run go to the same path: neither the target name nor the fallback name
\* with the asset id is a path where an earlier asset has been placed.
C18_NoOverwrite ==
  (threads = 1 /\ run = 1) =>
    \A a \in writes, b \in writes :
      (a.run = b.run /\ a.dir = b.dir /\ a.name = b.name) => a.id = b.id

\* Nothing has been staged or built for the DVD.
Untouched(dvd) ==
  /\ dvd.num \notin dirs
  /\ dvd.num \notin iso_failed
  /\ IsoPath(dvd) \notin isos
  /\ \A wr \in writes : wr.dir # dvd.num

\* C20: once the prompt has been answered, a number n in 1..N has selected
\* exactly DVD n, "all" has selected all DVDs in the order 1..N, and any
\* other answer has ended the run with nothing staged and nothing built;
\* the selected DVDs are processed in order, each one once: those before
\* the current one are done (built, unless it is a dry run), those after it
\* and the ones not selected are untouched.
C20_Selection ==
  LET N == Len(all_dvds)
      n == ParseInt(choice)
      valid == n # None /\ n[1] \in 1..N
  IN pc \in {"returned", "loop", "submit", "collect", "iso", "iso_ret",
             "completed"} =>
       /\ valid => /\ pc # "returned"
                   /\ to_process = <<all_dvds[n[1]]>>
                   /\ to_process[1].num = n[1]
       /\ choice = "all" => /\ pc # "returned"
                            /\ to_process = all_dvds
                            /\ \A k \in 1..N : to_process[k].num = k
       /\ (~valid /\ choice # "all") =>
            /\ pc = "returned"
            /\ to_process = << >>
            /\ dirs = {} /\ files = {} /\ isos = {} /\ writes = {}
            /\ iso_failed = {} /\ fut = << >> /\ isolog = << >>
       /\ \A k \in 1..Len(to_process) :
            /\ (k < di /\ ~dry_run) => Built(to_process[k])
            /\ k > di => Untouched(to_process[k])
       /\ \A k \in 1..N :
            (\A j \in 1..Len(to_process) : to_process[j] # all_dvds[k])
              => Untouched(all_dvds[k])

C20_Witness ==
  /\ pc = "completed"
  /\ choice = "2"
  /\ Len(all_dvds) = 2
  /\ ~dry_run
  /\ Built(all_dvds[2])
  /\ Untouched(all_dvds[1])
  /\ \E wr \in writes : wr.dir = 2








====
